---------------------------- MODULE Spec2Model ----------------------------
(***************************************************************************)
(* Model of dark-spider: the seed store and match store kept in SQLite     *)
(* (spider.py, url_populator.py), the persistent crawl loop                *)
(* (PersistentDarkWebMonitor.run_automated_scan) and the onion address     *)
(* syntax check (link_validator.py).                                       *)
(*                                                                         *)
(* Python strings are tuples of one-character strings, so that split,      *)
(* endswith, basename, lower and the substring test are computed.          *)
(***************************************************************************)
EXTENDS Integers, Sequences, FiniteSets, TLC

(***************************************************************************)
(* Bounds of the model                                                     *)
(***************************************************************************)
\* wall-clock values CURRENT_TIMESTAMP can take: 0..MaxTime
MaxTime == 1
\* rows the matches table may hold when a run starts
MaxMatches == 2
\* runs of run_automated_scan
MaxRuns == 2
\* saturation of the history counter of failures per address
MaxFails == 4
\* length of the url list passed to add_seeds
MaxSeedArgs == 2

(***************************************************************************)
(* Strings                                                                 *)
(***************************************************************************)
UpperAlpha ==
    <<"A","B","C","D","E","F","G","H","I","J","K","L","M",
      "N","O","P","Q","R","S","T","U","V","W","X","Y","Z">>

LowerAlpha ==
    <<"a","b","c","d","e","f","g","h","i","j","k","l","m",
      "n","o","p","q","r","s","t","u","v","w","x","y","z">>

\* str.lower() on one character
LowerChar(c) ==
    IF \E i \in 1..26 : UpperAlpha[i] = c
    THEN LowerAlpha[CHOOSE i \in 1..26 : UpperAlpha[i] = c]
    ELSE c

\* str.lower()
Lower(s) == [i \in 1..Len(s) |-> LowerChar(s[i])]

\* Python "needle in hay"
Contains(hay, needle) ==
    \E i \in 0..(Len(hay) - Len(needle)) :
        SubSeq(hay, i + 1, i + Len(needle)) = needle

\* str.endswith(suffix)
EndsWith(s, suffix) ==
    /\ Len(s) >= Len(suffix)
    /\ SubSeq(s, Len(s) - Len(suffix) + 1, Len(s)) = suffix

\* positions of "/" in s
SlashPositions(s) == {i \in 1..Len(s) : s[i] = "/"}

Max(S) == CHOOSE x \in S : \A y \in S : y <= x

Min(S) == CHOOSE x \in S : \A y \in S : x <= y

\* os.path.basename(p): what follows the last "/"
Basename(p) ==
    IF SlashPositions(p) = {} THEN p
    ELSE SubSeq(p, Max(SlashPositions(p)) + 1, Len(p))

(***************************************************************************)
(* Addresses held in the seed store                                        *)
(***************************************************************************)
UrlRoot == <<"h",":","/","/","a","/">>

UrlZip == <<"h",":","/","/","b","/","d",".","z","i","p">>

Urls == {UrlRoot, UrlZip}

\* SQL NULL in the DATETIME column last_checked
NULL == -1

(***************************************************************************)
(* State                                                                   *)
(***************************************************************************)
VARIABLES
    seed_list,   \* table seed_list, rows in rowid order
    matches,     \* table matches, rows in id order
    now,         \* wall clock read by CURRENT_TIMESTAMP
    quarantine,  \* quarantine directory: file name -> bytes written
    pc,          \* position of run_automated_scan
    seeds,       \* run_automated_scan: the batch loaded from seed_list
    idx,         \* run_automated_scan: position of url in seeds
    keywords,    \* run_automated_scan: its argument
    response,    \* fetch_page: the outcome of session.get
    html_content,\* run_automated_scan: what fetch_page returned
    found,       \* run_automated_scan: the keywords found in html_content
    runs,        \* number of runs started
    binarySeen,  \* history: addresses whose response was quarantined in
                 \*          the current run
    runBase,     \* history: number of match rows when the current run began
    fetched,     \* history: the urls fetch_page was called with in the
                 \*          current run, in call order
    updated,     \* history: the update_seed_status calls of the current
                 \*          run, in call order, each with the status code
                 \*          of the fetch before it (0: no response)
    saved,       \* history: the urls save_match was called with in the
                 \*          current run, in call order
    slept,       \* history: seconds slept in the current run
    v_url,       \* OnionValidator: the url under check
    v_valid,     \* OnionValidator: what _is_valid_syntax returned
    v_pc,        \* OnionValidator: position, "off" while it is not in use
    site_data,   \* validate_url: the OnionSite it returns
    v_response,  \* validate_url: the outcome of session.get
    v_requests,  \* history: number of session.get calls of the validator
    probed,      \* history: the urls validate_url has returned an active
                 \*          OnionSite for
    fails,       \* history: recordFailure calls per address since its last
                 \*          recordSuccess call or its creation
    scen,        \* history: progress of each address through the call
                 \*          sequence of Scenario since its creation
    evicted,     \* history: address was deleted and upsertSeed has not been
                 \*          called for it since
    everEvicted, \* history: address was deleted at some time
    redisc       \* history: upsertSeed was called for the address while it
                 \*          had two failures, since its creation or last
                 \*          success

runVars == <<pc, seeds, idx, keywords, response, html_content, found, runs,
             binarySeen, runBase, fetched, updated, saved, slept>>

histVars == <<fails, scen, evicted, everEvicted, redisc>>

valVars == <<v_url, v_valid, v_pc, site_data, v_response, v_requests,
             probed>>

vars == <<seed_list, matches, now, quarantine, pc, seeds, idx, keywords,
          response, html_content, found, runs, binarySeen, runBase,
          fetched, updated, saved, slept,
          v_url, v_valid, v_pc, site_data, v_response, v_requests, probed,
          fails, scen, evicted, everEvicted, redisc>>

(***************************************************************************)
(* Seed store: table seed_list                                             *)
(***************************************************************************)
\* the urls of a table, the PRIMARY KEY column
KeysOf(tbl) == {tbl[i].url : i \in 1..Len(tbl)}

\* the row of url; url is the PRIMARY KEY, so there is at most one
RowOf(tbl, url) == tbl[CHOOSE i \in 1..Len(tbl) : tbl[i].url = url]

\* SELECT url FROM seed_list WHERE is_active = 1
ListActive(tbl) ==
    LET act == SelectSeq(tbl, LAMBDA r : r.is_active = TRUE)
    IN  [i \in 1..Len(act) |-> act[i].url]

\* the 3-strikes threshold of the DELETE in update_seed_status
Strikes == 3

\* the sweep with the comparison off by one: failure_count > 3
EvictionSweepAbove(tbl) ==
    SelectSeq(tbl, LAMBDA r : ~(r.failure_count > Strikes))

\* the sweep one strike early: failure_count >= 2
EvictionSweepEarly(tbl) ==
    SelectSeq(tbl, LAMBDA r : ~(r.failure_count >= Strikes - 1))

\* DELETE FROM seed_list WHERE failure_count >= 3
EvictionSweep(tbl) ==
    SelectSeq(tbl, LAMBDA r : ~(r.failure_count >= Strikes))

\* the success update without the reset of failure_count
SuccessUpdateKeepCount(tbl, url, t) ==
    [i \in 1..Len(tbl) |->
        IF tbl[i].url = url
        THEN [tbl[i] EXCEPT !.last_checked = t, !.is_active = TRUE]
        ELSE tbl[i]]

\* the success update as INSERT OR REPLACE: it creates a missing row
SuccessUpsert(tbl, url, t) ==
    IF url \in KeysOf(tbl)
    THEN [i \in 1..Len(tbl) |->
            IF tbl[i].url = url
            THEN [tbl[i] EXCEPT !.failure_count = 0,
                                !.last_checked = t,
                                !.is_active = TRUE]
            ELSE tbl[i]]
    ELSE Append(tbl, [url |-> url, last_checked |-> t,
                      failure_count |-> 0, is_active |-> TRUE])

\* UPDATE seed_list SET failure_count = 0, last_checked = CURRENT_TIMESTAMP,
\*        is_active = 1 WHERE url = ?
SuccessUpdate(tbl, url, t) ==
    [i \in 1..Len(tbl) |->
        IF tbl[i].url = url
        THEN [tbl[i] EXCEPT !.failure_count = 0,
                            !.last_checked = t,
                            !.is_active = TRUE]
        ELSE tbl[i]]

\* the failure UPDATE without its WHERE clause
FailureUpdate_AllRows(tbl, url, t) ==
    [i \in 1..Len(tbl) |->
        [tbl[i] EXCEPT !.failure_count = @ + 1, !.last_checked = t]]

\* the failure UPDATE with is_active = 0 added to its SET clause
FailureUpdate_Deactivate(tbl, url, t) ==
    [i \in 1..Len(tbl) |->
        IF tbl[i].url = url
        THEN [tbl[i] EXCEPT !.failure_count = @ + 1,
                            !.last_checked = t,
                            !.is_active = FALSE]
        ELSE tbl[i]]

\* UPDATE seed_list SET failure_count = failure_count + 1,
\*        last_checked = CURRENT_TIMESTAMP WHERE url = ?
FailureUpdate(tbl, url, t) ==
    [i \in 1..Len(tbl) |->
        IF tbl[i].url = url
        THEN [tbl[i] EXCEPT !.failure_count = @ + 1,
                            !.last_checked = t]
        ELSE tbl[i]]

\* update_seed_status without the DELETE after the failure update
update_seed_status_NoSweep(tbl, url, success, t) ==
    IF success
    THEN SuccessUpdate(tbl, url, t)
    ELSE FailureUpdate(tbl, url, t)

\* update_seed_status(url, success): one transaction
update_seed_status(tbl, url, success, t) ==
    IF success
    THEN SuccessUpdate(tbl, url, t)
    ELSE EvictionSweep(FailureUpdate(tbl, url, t))

\* the insert as INSERT OR REPLACE: an existing row is replaced by a new one
InsertOrReplace(tbl, url) ==
    Append(SelectSeq(tbl, LAMBDA r : r.url # url),
           [url |-> url, last_checked |-> NULL,
            failure_count |-> 0, is_active |-> TRUE])

\* INSERT OR IGNORE INTO seed_list (url, is_active) VALUES (?, 1)
\* failure_count takes its DEFAULT 0, last_checked is NULL
InsertOrIgnore(tbl, url) ==
    IF url \in KeysOf(tbl) THEN tbl
    ELSE Append(tbl, [url |-> url, last_checked |-> NULL,
                      failure_count |-> 0, is_active |-> TRUE])

\* add_seeds(urls): the loop of inserts, one transaction
RECURSIVE add_seeds(_, _)
add_seeds(tbl, urls) ==
    IF urls = <<>> THEN tbl
    ELSE add_seeds(InsertOrIgnore(tbl, Head(urls)), Tail(urls))

\* INSERT OR IGNORE INTO seed_list (url, is_active, failure_count)
\*        VALUES (?, 1, 0)
PopulatorInsert(tbl, onion) ==
    IF onion \in KeysOf(tbl) THEN tbl
    ELSE Append(tbl, [url |-> onion, last_checked |-> NULL,
                      failure_count |-> 0, is_active |-> TRUE])

\* update_database(onions): the loop over the set in the iteration order
\* order, one transaction
RECURSIVE update_database(_, _)
update_database(tbl, order) ==
    IF order = <<>> THEN tbl
    ELSE update_database(PopulatorInsert(tbl, Head(order)), Tail(order))

(***************************************************************************)
(* Match store: table matches                                              *)
(***************************************************************************)
\* save_match that skips a (url, keyword) pair the table already holds
RECURSIVE save_match_Dedup(_, _, _, _)
save_match_Dedup(tbl, url, kws, t) ==
    IF kws = <<>> THEN tbl
    ELSE IF \E i \in 1..Len(tbl) : tbl[i].url = url /\ tbl[i].keyword = Head(kws)
         THEN save_match_Dedup(tbl, url, Tail(kws), t)
         ELSE save_match_Dedup(Append(tbl, [id |-> Len(tbl) + 1, url |-> url,
                                            keyword |-> Head(kws),
                                            timestamp |-> t]),
                               url, Tail(kws), t)

\* INSERT INTO matches (url, keyword) VALUES (?, ?) for each keyword:
\* id is AUTOINCREMENT, timestamp DEFAULT CURRENT_TIMESTAMP
RECURSIVE save_match(_, _, _, _)
save_match(tbl, url, kws, t) ==
    IF kws = <<>> THEN tbl
    ELSE save_match(Append(tbl, [id |-> Len(tbl) + 1, url |-> url,
                                 keyword |-> Head(kws),
                                 timestamp |-> t]),
                    url, Tail(kws), t)

(***************************************************************************)
(* Keywords and page text                                                  *)
(***************************************************************************)
Secret == <<"s","e","c","r","e","t">>

SecretUpper == <<"S","E","C","R","E","T">>

Other == <<"o","t","h","e","r">>

\* the keyword lists a caller passes
KeywordLists == {<<Secret, Other>>, <<Other>>}

(***************************************************************************)
(* History variables                                                       *)
(***************************************************************************)
\* the call sequence of the streak-reset example
Scenario == <<"F","F","S","F","F">>

\* scen after call c ("F" or "S") on an address
ScenStep(k, c) ==
    IF k >= 0 /\ k < Len(Scenario) /\ Scenario[k + 1] = c THEN k + 1 ELSE -1

\* the addresses a transition of the table deletes / creates
Deleted(old, new) == KeysOf(old) \ KeysOf(new)

Created(old, new) == KeysOf(new) \ KeysOf(old)

\* history after a call that upserts the addresses called
HistUpsert(called, new) ==
    /\ fails' = [u \in Urls |-> IF u \in Created(seed_list, new) THEN 0 ELSE fails[u]]
    /\ scen' = [u \in Urls |-> IF u \in Created(seed_list, new) THEN 0 ELSE scen[u]]
    /\ evicted' = [u \in Urls |-> IF u \in called THEN FALSE ELSE evicted[u]]
    /\ redisc' = [u \in Urls |->
                    IF u \in Created(seed_list, new) THEN FALSE
                    ELSE IF u \in called /\ u \in KeysOf(seed_list)
                            /\ RowOf(seed_list, u).failure_count = 2
                         THEN TRUE
                         ELSE redisc[u]]
    /\ UNCHANGED everEvicted

\* history after update_seed_status(url, success)
HistStatus(url, success, new) ==
    /\ fails' = [fails EXCEPT ![url] =
                    IF success THEN 0
                    ELSE IF @ < MaxFails THEN @ + 1 ELSE @]
    /\ scen' = [scen EXCEPT ![url] = ScenStep(@, IF success THEN "S" ELSE "F")]
    /\ evicted' = [u \in Urls |->
                      evicted[u] \/ u \in Deleted(seed_list, new)]
    /\ everEvicted' = [u \in Urls |->
                          everEvicted[u] \/ u \in Deleted(seed_list, new)]
    /\ redisc' = [redisc EXCEPT ![url] = IF success THEN FALSE ELSE @]


(***************************************************************************)
(* The store operations called directly                                    *)
(***************************************************************************)
\* lists of length at most n over S
SeqsUpTo(S, n) == UNION {[1..k -> S] : k \in 0..n}

\* the orders in which a set can be iterated
OrdersOf(S) ==
    {o \in [1..Cardinality(S) -> S] : \A i, j \in DOMAIN o : i # j => o[i] # o[j]}


(***************************************************************************)
(* Store operations as called directly                                     *)
(***************************************************************************)
\* the wall clock advances
Tick ==
    /\ now < MaxTime
    /\ now' = now + 1
    /\ UNCHANGED <<seed_list, matches, quarantine, runVars, histVars, valVars>>

\* PersistentDarkWebMonitor.add_seeds(urls), called outside a run
AddSeeds ==
    /\ pc = "idle"
    /\ \E urls \in SeqsUpTo(Urls, MaxSeedArgs) :
        LET new == add_seeds(seed_list, urls)
        IN  /\ seed_list' = new
            /\ HistUpsert({urls[i] : i \in DOMAIN urls}, new)
    /\ UNCHANGED <<matches, now, quarantine, runVars, valVars>>

\* SeedPopulator.update_database(onions): the populator is its own process
\* and calls it when it has discovered at least one address
UpdateDatabase ==
    /\ \E onions \in (SUBSET Urls) \ {{}} :
        \E order \in OrdersOf(onions) :
            LET new == update_database(seed_list, order)
            IN  /\ seed_list' = new
                /\ HistUpsert(onions, new)
    /\ UNCHANGED <<matches, now, quarantine, runVars, valVars>>

\* PersistentDarkWebMonitor.update_seed_status(url, True)
RecordSuccess ==
    /\ pc = "idle"
    /\ \E url \in Urls :
        LET new == update_seed_status(seed_list, url, TRUE, now)
        IN  /\ seed_list' = new
            /\ HistStatus(url, TRUE, new)
    /\ UNCHANGED <<matches, now, quarantine, runVars, valVars>>

\* PersistentDarkWebMonitor.update_seed_status(url, False)
RecordFailure ==
    /\ pc = "idle"
    /\ \E url \in Urls :
        LET new == update_seed_status(seed_list, url, FALSE, now)
        IN  /\ seed_list' = new
            /\ HistStatus(url, FALSE, new)
    /\ UNCHANGED <<matches, now, quarantine, runVars, valVars>>

(***************************************************************************)
(* Content fetcher: DarkWebMonitor.fetch_page                              *)
(***************************************************************************)
\* Python None where a str is expected
None == <<"None">>

\* no response: session.get has not been called for the current seed
NoResponse ==
    [kind |-> "none", status_code |-> 0, content_type |-> <<>>, content |-> <<>>]

DotZip == <<".","z","i","p">>

DotSql == <<".","s","q","l">>

AppZip == <<"a","p","p","l","i","c","a","t","i","o","n","/","z","i","p">>

AppSql == <<"a","p","p","l","i","c","a","t","i","o","n","/","s","q","l">>

TextHtml == <<"t","e","x","t","/","h","t","m","l">>

\* the fallback file name "download.file"
DownloadFile == <<"d","o","w","n","l","o","a","d",".","f","i","l","e">>

\* Content-Type headers a server sends; <<>> is the header left out
ContentTypes == {<<>>, TextHtml, AppZip, AppSql \o <<";">> \o TextHtml}

\* a page naming both keywords
SecretAndOther == Secret \o <<" ">> \o Other

\* response bodies, the empty body included
Bodies == {<<>>, SecretUpper, SecretAndOther}

\* what session.get(url, timeout=30) does: it raises a RequestException, or
\* returns a response (headers and body of a non-200 response are not read)
Responses ==
    {[kind |-> "error", status_code |-> 0, content_type |-> <<>>, content |-> <<>>]}
    \cup {[kind |-> "http", status_code |-> 404, content_type |-> <<>>, content |-> <<>>]}
    \cup {[kind |-> "http", status_code |-> 200, content_type |-> ct, content |-> b] :
            ct \in ContentTypes, b \in Bodies}

\* the test of line 83: a zip or sql download
IsBinary(url, resp) ==
    \/ Contains(resp.content_type, AppZip)
    \/ Contains(resp.content_type, AppSql)
    \/ EndsWith(url, DotZip)
    \/ EndsWith(url, DotSql)

\* os.path.basename(url) or "download.file"
QuarantineName(url) ==
    IF Basename(url) # <<>> THEN Basename(url) ELSE DownloadFile

\* what a call yields when an exception leaves it
Raised == <<"Raised">>

\* fetch_page without the except clause: the RequestException leaves it
fetch_page_Uncaught(url, resp) ==
    IF resp.kind = "error" THEN Raised
    ELSE IF resp.status_code = 200
         THEN IF IsBinary(url, resp) THEN None ELSE resp.content
         ELSE None

\* fetch_page without the return None of the download branch
fetch_page_ParsesBinary(url, resp) ==
    IF resp.kind = "error" THEN None
    ELSE IF resp.status_code = 200 THEN resp.content ELSE None

\* the value fetch_page returns
fetch_page(url, resp) ==
    IF resp.kind = "error" THEN None
    ELSE IF resp.status_code = 200
         THEN IF IsBinary(url, resp) THEN None ELSE resp.content
         ELSE None

\* the quarantine directory after fetch_page
fetch_page_files(dir, url, resp) ==
    IF resp.kind = "http" /\ resp.status_code = 200 /\ IsBinary(url, resp)
    THEN [f \in DOMAIN dir \cup {QuarantineName(url)} |->
            IF f = QuarantineName(url) THEN resp.content ELSE dir[f]]
    ELSE dir

\* Python truth value of an Optional[str]
Truthy(x) == x # None /\ x # <<>>

\* [k for k in keywords if k.lower() in html_content.lower()]
FoundKeywords(kws, text) ==
    SelectSeq(kws, LAMBDA k : Contains(Lower(text), Lower(k)))

(***************************************************************************)
(* Crawl orchestrator: PersistentDarkWebMonitor.run_automated_scan         *)
(***************************************************************************)
\* time.sleep(2)
SleepSeconds == 2

\* lines 173-180: load the batch; return when it is empty
RunStart ==
    /\ pc = "idle"
    /\ runs < MaxRuns
    /\ Len(matches) < MaxMatches
    /\ \E kws \in KeywordLists : keywords' = kws
    /\ seeds' = ListActive(seed_list)
    /\ runs' = runs + 1
    /\ binarySeen' = {}
    /\ runBase' = Len(matches)
    /\ fetched' = <<>>
    /\ updated' = <<>>
    /\ saved' = <<>>
    /\ slept' = 0
    /\ IF seeds' = <<>>
       THEN pc' = "idle" /\ idx' = 0
       ELSE pc' = "fetch" /\ idx' = 1
    /\ UNCHANGED <<seed_list, matches, now, quarantine, response,
                   html_content, found, histVars, valVars>>

\* line 187: html_content = self.fetch_page(url); the call is in no try
\* block, so an exception that left fetch_page would end the run
RunFetch ==
    /\ pc = "fetch"
    /\ \E resp \in Responses :
        /\ response' = resp
        /\ html_content' = fetch_page(seeds[idx], resp)
        /\ quarantine' = fetch_page_files(quarantine, seeds[idx], resp)
        /\ binarySeen' = IF resp.kind = "http" /\ resp.status_code = 200
                            /\ IsBinary(seeds[idx], resp)
                         THEN binarySeen \cup {seeds[idx]}
                         ELSE binarySeen
    /\ fetched' = Append(fetched, seeds[idx])
    /\ pc' = IF html_content' = Raised THEN "idle" ELSE "status"
    /\ UNCHANGED <<seed_list, matches, now, seeds, idx, keywords, found,
                   runs, runBase, updated, saved, slept, histVars, valVars>>

\* lines 189-198: the health update, and the keyword match on success
RunStatus ==
    /\ pc = "status"
    /\ LET url == seeds[idx]
           new == update_seed_status(seed_list, url, Truthy(html_content), now)
       IN  /\ seed_list' = new
           /\ HistStatus(url, Truthy(html_content), new)
           /\ updated' = Append(updated, [url |-> url,
                                          success |-> Truthy(html_content),
                                          status |-> response.status_code])
           /\ found' = IF Truthy(html_content)
                        THEN FoundKeywords(keywords, html_content)
                        ELSE <<>>
           /\ pc' = IF found' # <<>> THEN "save" ELSE "sleep"
    /\ UNCHANGED <<matches, now, quarantine, seeds, idx, keywords, response,
                   html_content, runs, binarySeen, runBase, fetched, saved,
                   slept, valVars>>

\* line 195: self.save_match(url, found)
RunSave ==
    /\ pc = "save"
    /\ matches' = save_match(matches, seeds[idx], found, now)
    /\ saved' = Append(saved, seeds[idx])
    /\ pc' = "sleep"
    /\ UNCHANGED <<seed_list, now, quarantine, seeds, idx, keywords, response,
                   html_content, found, runs, binarySeen, runBase, fetched,
                   updated, slept, histVars, valVars>>

\* the loop with a seed that failed fetched again
RunSleep_Retry ==
    /\ pc = "sleep"
    /\ now' = IF now < MaxTime THEN now + 1 ELSE now
    /\ slept' = slept + SleepSeconds
    /\ response' = NoResponse
    /\ html_content' = None
    /\ found' = <<>>
    /\ IF ~updated[Len(updated)].success
       THEN pc' = "fetch" /\ idx' = idx
       ELSE IF idx < Len(seeds)
            THEN pc' = "fetch" /\ idx' = idx + 1
            ELSE pc' = "done" /\ idx' = idx
    /\ UNCHANGED <<seed_list, matches, quarantine, seeds, keywords, runs,
                   binarySeen, runBase, fetched, updated, saved, histVars,
                   valVars>>

\* the loop without the sleep after a seed that failed
RunSleep_OnSuccessOnly ==
    /\ pc = "sleep"
    /\ now' = IF now < MaxTime THEN now + 1 ELSE now
    /\ slept' = IF updated[Len(updated)].success
                THEN slept + SleepSeconds ELSE slept
    /\ response' = NoResponse
    /\ html_content' = None
    /\ found' = <<>>
    /\ IF idx < Len(seeds)
       THEN pc' = "fetch" /\ idx' = idx + 1
       ELSE pc' = "done" /\ idx' = idx
    /\ UNCHANGED <<seed_list, matches, quarantine, seeds, keywords, runs,
                   binarySeen, runBase, fetched, updated, saved, histVars,
                   valVars>>

\* line 200: time.sleep(2), then the next seed or the end of the loop;
\* the wall clock has advanced when the sleep returns
RunSleep ==
    /\ pc = "sleep"
    /\ now' = IF now < MaxTime THEN now + 1 ELSE now
    /\ slept' = slept + SleepSeconds
    /\ response' = NoResponse
    /\ html_content' = None
    /\ found' = <<>>
    /\ IF idx < Len(seeds)
       THEN pc' = "fetch" /\ idx' = idx + 1
       ELSE pc' = "done" /\ idx' = idx
    /\ UNCHANGED <<seed_list, matches, quarantine, seeds, keywords, runs,
                   binarySeen, runBase, fetched, updated, saved, histVars,
                   valVars>>

\* line 202: the loop is over, run_automated_scan returns
RunEnd ==
    /\ pc = "done"
    /\ pc' = "idle"
    /\ idx' = 0
    /\ seeds' = <<>>
    /\ keywords' = <<>>
    /\ fetched' = <<>>
    /\ updated' = <<>>
    /\ saved' = <<>>
    /\ slept' = 0
    /\ UNCHANGED <<seed_list, matches, now, quarantine, response,
                   html_content, found, runs, binarySeen, runBase, histVars,
                   valVars>>

\* lines 155-161 with every statement committed as it is executed: a kill
\* between the UPDATE and the DELETE leaves the UPDATE in the table
killed_in_update_Autocommit(tbl, url, success, t) ==
    {tbl, IF success THEN SuccessUpdate(tbl, url, t)
                     ELSE FailureUpdate(tbl, url, t)}

\* lines 155-161: the table after the process is killed inside the with
\* block of update_seed_status; the statements of the block are one
\* transaction that is committed when the block ends, and sqlite rolls an
\* uncommitted transaction back
killed_in_update(tbl, url, success, t) == {tbl}

\* the process is killed during a run; a kill after the commit of the
\* health update is a kill at the next position
Kill ==
    /\ pc \in {"fetch", "status", "save", "sleep", "done"}
    /\ seed_list' \in IF pc = "status"
                      THEN killed_in_update(seed_list, seeds[idx],
                                            Truthy(html_content), now)
                      ELSE {seed_list}
    /\ pc' = "killed"
    /\ UNCHANGED <<matches, now, quarantine, seeds, idx, keywords, response,
                   html_content, found, runs, binarySeen, runBase, fetched,
                   updated, saved, slept, histVars, valVars>>

\* the spider is started again after a kill: a new process, no run yet
Restart ==
    /\ pc = "killed"
    /\ pc' = "idle"
    /\ idx' = 0
    /\ seeds' = <<>>
    /\ keywords' = <<>>
    /\ response' = NoResponse
    /\ html_content' = None
    /\ found' = <<>>
    /\ fetched' = <<>>
    /\ updated' = <<>>
    /\ saved' = <<>>
    /\ slept' = 0
    /\ UNCHANGED <<seed_list, matches, now, quarantine, runs, binarySeen,
                   runBase, histVars, valVars>>

(***************************************************************************)
(* Address syntax check: OnionValidator._is_valid_syntax                   *)
(***************************************************************************)
\* the length of the name in onion_pattern
OnionNameLen == 56

\* the character class [a-z2-7]
Base32Chars ==
    {LowerAlpha[i] : i \in 1..26} \cup {"2", "3", "4", "5", "6", "7"}

DotOnion == <<".","o","n","i","o","n">>

SchemeSep == <<":","/","/">>

\* the positions where "://" starts in s
SepPositions(s) ==
    {i \in 1..(Len(s) - 2) : SubSeq(s, i, i + 2) = SchemeSep}

\* s.split("://")[-1]: what follows the last "://", s itself without one
\* ("://" cannot overlap itself, so split finds every occurrence)
AfterLastSep(s) ==
    IF SepPositions(s) = {} THEN s
    ELSE SubSeq(s, Max(SepPositions(s)) + 3, Len(s))

\* s.split("/")[0]: what precedes the first "/", s itself without one
BeforeFirstSlash(s) ==
    IF SlashPositions(s) = {} THEN s
    ELSE SubSeq(s, 1, Min(SlashPositions(s)) - 1)

\* [a-z2-7]{56}\.onion matched at the start of d and reaching its end
FullOnionName(d) ==
    /\ Len(d) = OnionNameLen + Len(DotOnion)
    /\ \A i \in 1..OnionNameLen : d[i] \in Base32Chars
    /\ SubSeq(d, OnionNameLen + 1, Len(d)) = DotOnion

\* onion_pattern.match(d) with ^[a-z2-7]{56}\.onion$: in Python $ matches at
\* the end of the string and also before a newline that ends the string
OnionPatternMatch(d) ==
    \/ FullOnionName(d)
    \/ /\ Len(d) > 0
       /\ d[Len(d)] = "\n"
       /\ FullOnionName(SubSeq(d, 1, Len(d) - 1))

\* _is_valid_syntax(url); str.split returns a non-empty list, so the
\* IndexError handler is never entered
is_valid_syntax(url) == OnionPatternMatch(BeforeFirstSlash(AfterLastSep(url)))

\* an onion name: c repeated 56 times
NameOf(c) == [i \in 1..OnionNameLen |-> c]

\* the name NameOf(c) with the character at position k replaced by x
NameWith(c, k, x) == [i \in 1..OnionNameLen |-> IF i = k THEN x ELSE c]

Str_http == <<"h","t","t","p">>

Str_evil == <<"e","v","i","l",".","c","o","m">>

\* scheme prefixes of the inputs, <<>> for none
InputSchemes == {<<>>, Str_http \o SchemeSep, SchemeSep}

\* host segments of the inputs
InputHosts ==
    {NameOf(c) \o DotOnion : c \in {"a", "z", "2", "7"}}
    \cup {NameWith("a", k, x) \o DotOnion :
            k \in {1, 30, OnionNameLen}, x \in {"A", "1", "8", "-", "."}}
    \cup {SubSeq(NameOf("b"), 1, OnionNameLen - 1) \o DotOnion,
          NameOf("b") \o <<"b">> \o DotOnion,
          <<"x">> \o NameOf("b") \o DotOnion,
          <<" ">> \o NameOf("b") \o DotOnion,
          NameOf("b") \o DotOnion \o <<"x">>,
          NameOf("b") \o DotOnion \o <<"\n">>,
          NameOf("b") \o DotOnion \o <<":","8","0">>,
          NameOf("b") \o <<".","o","n","i","o">>,
          NameOf("b") \o <<"x","o","n","i","o","n">>,
          NameOf("b"),
          Str_evil,
          DotOnion,
          <<>>}

\* what follows the host in the inputs, <<>> for nothing
InputPaths ==
    {<<>>, <<"/">>, <<"/","p">>,
     <<"/","?","u","=">> \o Str_http \o SchemeSep \o NameOf("c") \o DotOnion,
     <<"/","?","u","=">> \o Str_http \o SchemeSep \o Str_evil}

\* the urls the check is applied to
SyntaxInputs ==
    {sch \o h \o pth : sch \in InputSchemes, h \in InputHosts, pth \in InputPaths}

\* the validator checks the syntax of v_url
CheckSyntax ==
    /\ v_pc = "input"
    /\ v_valid' = is_valid_syntax(v_url)
    /\ v_pc' = "checked"
    /\ UNCHANGED <<v_url, site_data, v_response, v_requests, probed,
                   seed_list, matches, now, quarantine, runVars, histVars>>

(***************************************************************************)
(* Reachability probe: OnionValidator.validate_url                         *)
(***************************************************************************)
\* the default title of an OnionSite
NA == <<"N","/","A">>

Seized == <<"[","S","E","I","Z","E","D","]">>

NoTitle == <<"N","o"," ","T","i","t","l","e">>

TitleOpen == <<"<","t","i","t","l","e",">">>

TitleClose == <<"<","/","t","i","t","l","e",">">>

\* seizure_keywords
SeizureKeywords ==
    {<<"t","h","i","s"," ","h","i","d","d","e","n"," ","s","i","t","e"," ",
       "h","a","s"," ","b","e","e","n"," ","s","e","i","z","e","d">>,
     <<"f","e","d","e","r","a","l"," ","b","u","r","e","a","u"," ","o","f",
       " ","i","n","v","e","s","t","i","g","a","t","i","o","n">>,
     <<"o","p","e","r","a","t","i","o","n"," ","o","n","y","m","o","u","s">>,
     <<"l","a","w"," ","e","n","f","o","r","c","e","m","e","n","t">>}

\* OnionSite(url=url): the dataclass with its defaults
OnionSite(url) ==
    [url |-> url, is_active |-> FALSE, response_time |-> 0,
     status_code |-> 0, title |-> NA]

\* _check_for_seizure(html_content)
check_for_seizure(html) ==
    \E k \in SeizureKeywords : Contains(Lower(html), k)

\* the positions where sub starts in s
Positions(s, sub) ==
    {i \in 1..(Len(s) - Len(sub) + 1) : SubSeq(s, i, i + Len(sub) - 1) = sub}

\* s.split(sep)[0]: what precedes the first sep, s itself without one
SplitFirst(s, sep) ==
    IF Positions(s, sep) = {} THEN s
    ELSE SubSeq(s, 1, Min(Positions(s, sep)) - 1)

\* s.split(sep)[1] for an s that contains sep: what lies between the first
\* sep and the next one, or the end of s (the tags cannot overlap
\* themselves, so split finds every occurrence)
SplitSecond(s, sep) ==
    LET rest == SubSeq(s, Min(Positions(s, sep)) + Len(sep), Len(s))
    IN  SplitFirst(rest, sep)

\* lines 133-137: the title of a page that contains "<title>"; split
\* returns one element, and [1] raises IndexError, only without "<title>"
ExtractTitle(text) ==
    IF Positions(text, TitleOpen) = {} THEN NoTitle
    ELSE SplitFirst(SplitSecond(text, TitleOpen), TitleClose)

\* the OnionSite validate_url returns when session.get, if it is called,
\* does resp: raises an exception or returns a response
validate_url(url, resp) ==
    IF ~is_valid_syntax(url) THEN OnionSite(url)
    ELSE IF resp.kind # "http" THEN OnionSite(url)
    ELSE LET s == [OnionSite(url) EXCEPT !.status_code = resp.status_code,
                                         !.response_time = resp.elapsed]
         IN  IF resp.status_code = 200
             THEN IF check_for_seizure(resp.text)
                  THEN [s EXCEPT !.title = Seized]
                  ELSE [s EXCEPT !.is_active = TRUE,
                                 !.title = IF Contains(resp.text, TitleOpen)
                                           THEN ExtractTitle(resp.text)
                                           ELSE @]
             ELSE s

\* the number of session.get calls of validate_url(url)
requests_sent(url) == IF is_valid_syntax(url) THEN 1 ELSE 0

\* no request was sent
NoProbeResponse == [kind |-> "none", status_code |-> 0, elapsed |-> 0, text |-> <<>>]

Str_T == <<"T","o","r">>

Str_LawEnforcement ==
    <<"L","a","w"," ","E","n","f","o","r","c","e","m","e","n","t">>

Str_OPERATION ==
    <<"O","P","E","R","A","T","I","O","N"," ","O","N","Y","M","O","U","S">>

\* pages without a seizure phrase: no tag, both tags, an empty title, text
\* around the tags, no closing tag, the closing tag first, two opening
\* tags, upper-case tags
PlainPages ==
    {<<>>,
     Str_T,
     TitleOpen \o Str_T \o TitleClose,
     TitleOpen \o TitleClose,
     <<"x">> \o TitleOpen \o Str_T \o TitleClose \o <<"y">> \o TitleClose,
     TitleOpen \o Str_T,
     TitleClose \o TitleOpen \o Str_T,
     TitleOpen \o <<"a">> \o TitleOpen \o <<"b">> \o TitleClose,
     <<"<","T","I","T","L","E",">">> \o Str_T \o <<"<","/","T","I","T","L","E",">">>}

\* pages with a seizure phrase, in lower, mixed and upper case
SeizedPages ==
    SeizureKeywords
    \cup {TitleOpen \o Str_T \o TitleClose \o <<" ">> \o Str_LawEnforcement,
          <<"a"," ">> \o Str_OPERATION \o <<"!">>}

\* response.elapsed.total_seconds(), in whole seconds
ElapsedTimes == {1, 2}

\* what session.get(url, timeout=45) does: it raises Timeout,
\* ConnectionError or another exception, or returns a response
ProbeResponses ==
    {[kind |-> k, status_code |-> 0, elapsed |-> 0, text |-> <<>>] :
        k \in {"timeout", "connection", "exception"}}
    \cup {[kind |-> "http", status_code |-> 200, elapsed |-> e, text |-> b] :
            e \in ElapsedTimes, b \in PlainPages \cup SeizedPages}
    \cup {[kind |-> "http", status_code |-> c, elapsed |-> e, text |-> b] :
            c \in {404, 503}, e \in ElapsedTimes,
            b \in {<<>>, TitleOpen \o Str_T \o TitleClose, Str_LawEnforcement}}

\* the urls the probe is called with: valid addresses with and without
\* scheme and path, addresses that are not onion names, and a url of
\* another host that carries an onion address in its query string
ProbeInputs ==
    {Str_http \o SchemeSep \o NameOf("a") \o DotOnion,
     NameOf("z") \o DotOnion,
     Str_http \o SchemeSep \o NameOf("2") \o DotOnion \o <<"/","p">>,
     Str_http \o SchemeSep \o NameWith("a", 1, "A") \o DotOnion,
     Str_http \o SchemeSep \o Str_evil,
     <<>>,
     Str_http \o SchemeSep \o Str_evil \o <<"/","?","u","=">> \o Str_http
        \o SchemeSep \o NameOf("c") \o DotOnion}

\* session.get raises MissingSchema for a url without a scheme; any
\* outcome is possible for the others
GetOutcomes(url) ==
    IF SepPositions(url) # {} /\ Min(SepPositions(url)) > 1
    THEN ProbeResponses
    ELSE {r \in ProbeResponses : r.kind = "exception"}

\* validate_url(v_url)
ValidateUrl ==
    /\ v_pc = "probe"
    /\ \E resp \in GetOutcomes(v_url) :
        /\ v_response' = IF requests_sent(v_url) = 1 THEN resp
                         ELSE NoProbeResponse
        /\ site_data' = validate_url(v_url, resp)
        /\ probed' = IF validate_url(v_url, resp).is_active
                      THEN probed \cup {v_url} ELSE probed
    /\ v_requests' = v_requests + requests_sent(v_url)
    /\ v_valid' = is_valid_syntax(v_url)
    /\ v_pc' = "returned"
    /\ UNCHANGED <<v_url, seed_list, matches, now, quarantine, runVars, histVars>>

\* the tables after _init_db on a new database file, no run in progress
Init ==
    /\ seed_list = <<>>
    /\ matches = <<>>
    /\ now = 0
    /\ quarantine = <<>>
    /\ pc = "idle"
    /\ seeds = <<>>
    /\ idx = 0
    /\ keywords = <<>>
    /\ response = NoResponse
    /\ html_content = None
    /\ found = <<>>
    /\ runs = 0
    /\ binarySeen = {}
    /\ runBase = 0
    /\ fetched = <<>>
    /\ updated = <<>>
    /\ saved = <<>>
    /\ slept = 0
    /\ fails = [u \in Urls |-> 0]
    /\ scen = [u \in Urls |-> -1]
    /\ evicted = [u \in Urls |-> FALSE]
    /\ everEvicted = [u \in Urls |-> FALSE]
    /\ redisc = [u \in Urls |-> FALSE]
    /\ v_url = <<>>
    /\ v_valid = FALSE
    /\ site_data = OnionSite(<<>>)
    /\ v_response = NoProbeResponse
    /\ v_requests = 0
    /\ probed = {}
    /\ v_pc = "off"

Next ==
    \/ Tick
    \/ AddSeeds
    \/ UpdateDatabase
    \/ RecordSuccess
    \/ RecordFailure

\* the seed store under any sequence of direct calls
Spec == Init /\ [][Next]_vars

NextRun ==
    \/ AddSeeds
    \/ UpdateDatabase
    \/ RunStart
    \/ RunFetch
    \/ RunStatus
    \/ RunSave
    \/ RunSleep
    \/ RunEnd

\* the spider's runs, its seeding between runs, and the populator process
SpecRun == Init /\ [][NextRun]_vars

\* the store after two runs in which both seeds failed
AgedStore ==
    <<[url |-> UrlRoot, last_checked |-> 0, failure_count |-> 2,
       is_active |-> TRUE],
      [url |-> UrlZip, last_checked |-> 0, failure_count |-> 2,
       is_active |-> TRUE]>>

\* a spider started on a database whose seeds have failed twice
InitAged ==
    /\ seed_list = AgedStore
    /\ matches = <<>>
    /\ now = 0
    /\ quarantine = <<>>
    /\ pc = "idle"
    /\ seeds = <<>>
    /\ idx = 0
    /\ keywords = <<>>
    /\ response = NoResponse
    /\ html_content = None
    /\ found = <<>>
    /\ runs = 0
    /\ binarySeen = {}
    /\ runBase = 0
    /\ fetched = <<>>
    /\ updated = <<>>
    /\ saved = <<>>
    /\ slept = 0
    /\ fails = [u \in Urls |-> 2]
    /\ scen = [u \in Urls |-> 2]
    /\ evicted = [u \in Urls |-> FALSE]
    /\ everEvicted = [u \in Urls |-> FALSE]
    /\ redisc = [u \in Urls |-> FALSE]
    /\ v_url = <<>>
    /\ v_valid = FALSE
    /\ site_data = OnionSite(<<>>)
    /\ v_response = NoProbeResponse
    /\ v_requests = 0
    /\ probed = {}
    /\ v_pc = "off"

NextCrash ==
    \/ RunStart
    \/ RunFetch
    \/ RunStatus
    \/ RunSave
    \/ RunSleep
    \/ RunEnd
    \/ Kill
    \/ Restart

\* runs that can be killed at any position, and the populator process
SpecCrash == InitAged /\ [][NextCrash]_vars


(***************************************************************************)
(* Properties of the seed store                                            *)
(***************************************************************************)
\* the addresses listActive() returns
ActiveSet(tbl) == {ListActive(tbl)[i] : i \in 1..Len(ListActive(tbl))}

\* the health fields of a row
Health(r) == <<r.failure_count, r.last_checked, r.is_active>>

\* C1: an address that has had 3 recordFailure calls since its creation or
\* its last recordSuccess call is absent from listActive(), whatever was
\* done to the other addresses meanwhile.
C1_ThreeStrikes ==
    \A u \in Urls : fails[u] >= 3 => u \notin ActiveSet(seed_list)

\* C1 happens: an address was evicted by its third failure while the other
\* address is in the store.
C1_Witness ==
    \E u \in Urls :
        /\ fails[u] = 3 /\ evicted[u] /\ u \notin KeysOf(seed_list)
        /\ \E v \in Urls \ {u} : v \in KeysOf(seed_list)

\* C2: failure_count of a present record is the number of failures since its
\* creation or last success, which is below 3; after failure, failure,
\* success, failure, failure the record is present with failure_count 2.
C2_SuccessResets ==
    \A u \in Urls :
        /\ u \in KeysOf(seed_list) =>
              /\ RowOf(seed_list, u).failure_count = fails[u]
              /\ fails[u] < 3
        /\ scen[u] = Len(Scenario) =>
              /\ u \in ActiveSet(seed_list)
              /\ RowOf(seed_list, u).failure_count = 2

\* C2 happens: an address went through failure, failure, success, failure,
\* failure.
C2_Witness == \E u \in Urls : scen[u] = Len(Scenario)

\* C3: every record of the seed store has failure_count 0, 1 or 2.
C3_CountBelowThree ==
    \A i \in 1..Len(seed_list) : seed_list[i].failure_count \in {0, 1, 2}

\* C3 happens: both addresses are at failure_count 2, one more failure of
\* either takes it to 3.
C3_Witness ==
    /\ Len(seed_list) = 2
    /\ \A i \in 1..Len(seed_list) : seed_list[i].failure_count = 2

\* C4: a call of add_seeds or update_database leaves every record that is
\* already in the seed store as it was, and in its place.
C4_UpsertKeepsHealth ==
    [][(AddSeeds \/ UpdateDatabase) =>
          /\ Len(seed_list') >= Len(seed_list)
          /\ SubSeq(seed_list', 1, Len(seed_list)) = seed_list]_vars

\* C4 happens: an address was rediscovered after its second failure and was
\* evicted by its third failure all the same.
C4_Witness ==
    \E u \in Urls : redisc[u] /\ evicted[u] /\ fails[u] = 3

\* C5 as stated: an address that was evicted is never in listActive() again.
C5_EvictedForever ==
    \A u \in Urls : everEvicted[u] => u \notin ActiveSet(seed_list)

\* C5 amended: an evicted address is absent from listActive() exactly until
\* upsertSeed is called for it again, and is listed again from that call on.
C5_EvictedUntilUpsert ==
    \A u \in Urls :
        everEvicted[u] => (evicted[u] <=> u \notin ActiveSet(seed_list))

\* C5 happens: an address was evicted, recordSuccess was called for it
\* afterwards, and it is still absent.
C5_Witness ==
    \E u \in Urls :
        evicted[u] /\ fails[u] = 0 /\ u \notin KeysOf(seed_list)

\* C9: a record is deleted only by a recordFailure call for its own address
\* that is the third failure since its creation or last success, and the
\* health fields of a record that stays change only in a recordSuccess or
\* recordFailure call.
C9_OnlyEvictionDeletes ==
    [][/\ \A u \in Deleted(seed_list, seed_list') :
             /\ RecordFailure \/ RunStatus
             /\ RowOf(seed_list, u).failure_count = 2
             /\ fails[u] = 2 /\ fails'[u] = 3
       /\ \A u \in KeysOf(seed_list) \cap KeysOf(seed_list') :
             Health(RowOf(seed_list', u)) # Health(RowOf(seed_list, u)) =>
                 RecordSuccess \/ RecordFailure \/ RunStatus]_vars

\* C9 happens: one address was evicted while the other stayed in the store
\* with two failures.
C9_Witness ==
    \E u \in Urls :
        /\ evicted[u] /\ u \notin KeysOf(seed_list)
        /\ \E v \in Urls \ {u} :
              v \in KeysOf(seed_list) /\ RowOf(seed_list, v).failure_count = 2

\* an eviction restricted to one address: the record of url is deleted
\* when its failure count has reached 3
ScopedSweep(tbl, url) ==
    SelectSeq(tbl, LAMBDA r : ~(r.url = url /\ r.failure_count >= 3))

\* C20: in every reachable state, recordFailure(X) with its store-wide
\* sweep gives the store that a sweep restricted to X gives: it deletes at
\* most the record of X, only when that record had 2 failures, and leaves
\* every other record as it was.
C20_SweepIsAddressScoped ==
    \A x \in Urls :
        LET after == update_seed_status(seed_list, x, FALSE, now)
        IN  /\ after = ScopedSweep(FailureUpdate(seed_list, x, now), x)
            /\ Deleted(seed_list, after) \subseteq {x}
            /\ x \in Deleted(seed_list, after) =>
                  RowOf(seed_list, x).failure_count = 2
            /\ \A u \in KeysOf(seed_list) \ {x} :
                  /\ u \in KeysOf(after)
                  /\ RowOf(after, u) = RowOf(seed_list, u)

\* C20 happens: the sweep of a third failure has deleted one address while
\* the other address, which was evicted before and added again, has two
\* failures.
C20_Witness ==
    \E u \in Urls :
        /\ evicted[u] /\ fails[u] = 3 /\ u \notin KeysOf(seed_list)
        /\ \E v \in Urls \ {u} :
              /\ v \in KeysOf(seed_list) /\ everEvicted[v]
              /\ RowOf(seed_list, v).failure_count = 2

\* the addresses of all records, in store order
AllUrls(tbl) == [i \in 1..Len(tbl) |-> tbl[i].url]

\* C21: every record of the seed store has isActive true, so listActive()
\* returns the whole store in its order, and an address is absent from
\* listActive() exactly when it has no record: a seed that has failed is
\* listed until the failure that deletes it.
C21_EveryRecordActive ==
    /\ \A i \in 1..Len(seed_list) : seed_list[i].is_active = TRUE
    /\ ListActive(seed_list) = AllUrls(seed_list)
    /\ \A u \in Urls :
          u \notin ActiveSet(seed_list) <=> u \notin KeysOf(seed_list)

\* C21 happens: an address with two failures since its last success is
\* still listed with isActive true, after a success and four failures in
\* all, while the other address is gone by eviction.
C21_Witness ==
    \E u \in Urls :
        /\ scen[u] = Len(Scenario)
        /\ u \in ActiveSet(seed_list) /\ RowOf(seed_list, u).is_active
        /\ \E v \in Urls \ {u} :
              evicted[v] /\ v \notin ActiveSet(seed_list)

(***************************************************************************)
(* Properties of a run                                                     *)
(***************************************************************************)
\* the response of the current seed is a 200 that is not a zip or sql download
Is200Text ==
    /\ response.kind = "http" /\ response.status_code = 200
    /\ ~IsBinary(seeds[idx], response)

\* the response of the current seed is a 200 that is a zip or sql download
Is200Binary ==
    /\ response.kind = "http" /\ response.status_code = 200
    /\ IsBinary(seeds[idx], response)

\* C6: after the health update of a seed whose fetch got a 200 response with
\* textual content, whatever the body, the seed's failure_count is 0.
C6_SuccessOnEvery200Text ==
    (pc \in {"save", "sleep"} /\ Is200Text) =>
        /\ seeds[idx] \in KeysOf(seed_list)
        /\ RowOf(seed_list, seeds[idx]).failure_count = 0

\* C7: a 200 response classified as a download is in the quarantine file of
\* its url as received, fetch_page returned None for it, no keyword is found
\* in it, and no match row of the current run is for a seed whose response
\* was quarantined in this run.
C7_BinaryNeverMatched ==
    /\ (pc \in {"status", "save", "sleep"} /\ Is200Binary) =>
          /\ html_content = None
          /\ found = <<>>
          /\ pc # "save"
          /\ QuarantineName(seeds[idx]) \in DOMAIN quarantine
          /\ quarantine[QuarantineName(seeds[idx])] = response.content
    /\ \A i \in (runBase + 1)..Len(matches) : matches[i].url \notin binarySeen

\* C7 happens: a download whose payload holds a keyword was quarantined and
\* its health update is done, in a run that has recorded a match of another
\* seed.
C7_Witness ==
    /\ pc = "sleep" /\ Is200Binary
    /\ Contains(Lower(response.content), Secret)
    /\ Secret \in {keywords[i] : i \in 1..Len(keywords)}
    /\ Len(matches) > runBase

\* the rows a scan of url appends for the keywords kws and the page text
RECURSIVE ExpectedRows(_, _, _, _, _)
ExpectedRows(n, url, kws, text, t) ==
    IF kws = <<>> THEN <<>>
    ELSE IF Contains(Lower(text), Lower(Head(kws)))
         THEN <<[id |-> n + 1, url |-> url, keyword |-> Head(kws),
                 timestamp |-> t]>>
              \o ExpectedRows(n + 1, url, Tail(kws), text, t)
         ELSE ExpectedRows(n, url, Tail(kws), text, t)

\* what C8 says of one step
MatchesStep ==
    /\ Len(matches') >= Len(matches)
    /\ SubSeq(matches', 1, Len(matches)) = matches
    /\ (pc = "save" /\ pc' = "sleep") =>
          matches' = matches \o ExpectedRows(Len(matches), seeds[idx],
                                             keywords, html_content, now)
    /\ ~(pc = "save" /\ pc' = "sleep") => matches' = matches
    /\ (pc = "status" /\ pc' = "sleep" /\ Truthy(html_content)) =>
          ExpectedRows(Len(matches), seeds[idx], keywords,
                       html_content, now) = <<>>

\* what C8 says of a first run over one seed whose body contains "secret",
\* with the keywords secret and other
MatchesScenario ==
    ( /\ pc = "sleep" /\ runBase = 0 /\ Len(seeds) = 1
      /\ keywords = <<Secret, Other>>
      /\ Is200Text /\ response.content = SecretUpper ) =>
        /\ Len(matches) = 1
        /\ matches[1].url = seeds[1] /\ matches[1].keyword = Secret

\* C8: every step keeps the rows of matches and only appends; the scan of a
\* seed with content appends one row per keyword of the list the content
\* contains, whatever the table already holds, and none when it contains
\* none; a first run over one seed whose body contains "secret", with
\* keywords secret and other, ends with the single row (address, secret).
C8_AppendOnlyNoDedup == [][MatchesStep /\ MatchesScenario']_vars

\* C8 happens: a second run recorded an (address, keyword) pair that an
\* earlier run had recorded.
C8_Witness ==
    /\ runs = 2
    /\ \E i, j \in 1..Len(matches) :
          /\ i <= runBase /\ j > runBase
          /\ matches[i].url = matches[j].url
          /\ matches[i].keyword = matches[j].keyword

\* the fetch of the current seed got no response or a status other than 200
FailedFetch ==
    \/ response.kind = "error"
    \/ response.kind = "http" /\ response.status_code # 200

\* the addresses of the health updates of the current run, in call order
UpdatedUrls == [i \in 1..Len(updated) |-> updated[i].url]

\* the row of url after one more failure of url, none when it is evicted
RowAfterFailure(tbl, url) ==
    IF RowOf(tbl, url).failure_count + 1 >= 3 THEN {}
    ELSE {[RowOf(tbl, url) EXCEPT !.failure_count = @ + 1,
                                  !.last_checked = now]}

\* what C11 says of one step of a process that is not killed in it: of the
\* fetch (the step that leaves "fetch"), of the health update (the step
\* that leaves "status") and of the end of the run
FailureStep ==
    /\ (pc = "fetch" /\ pc' \notin {pc, "killed"} /\ FailedFetch') =>
          html_content' = None /\ pc' = "status"
    /\ (pc = "status" /\ pc' \notin {pc, "killed"} /\ FailedFetch) =>
          /\ pc' = "sleep"
          /\ Len(updated') = Len(updated) + 1
          /\ updated'[Len(updated')].url = seeds[idx]
          /\ ~updated'[Len(updated')].success
          /\ seeds[idx] \in KeysOf(seed_list) =>
                {r \in {seed_list'[i] : i \in 1..Len(seed_list')} :
                    r.url = seeds[idx]} = RowAfterFailure(seed_list, seeds[idx])
    /\ (pc \notin {"idle", "killed"} /\ pc' = "idle") =>
          /\ pc = "done"
          /\ fetched = seeds
          /\ UpdatedUrls = seeds

\* C11: a fetch that times out, cannot connect or gets a status other than
\* 200 returns no content and raises nothing, the run records a failure of
\* that seed, and a run that is not killed ends only when every seed of the
\* batch has been fetched and has had its health update.
C11_FailureNeverAbortsRun == [][FailureStep]_vars

\* C11 happens: the first seed of a batch of two got no response and was
\* evicted by this third failure, the second seed got a 404, and both have
\* had their health update.
C11_Witness ==
    /\ pc = "done" /\ Len(seeds) = 2 /\ Len(updated) = 2
    /\ updated[1].status = 0 /\ ~updated[1].success
    /\ updated[2].status = 404 /\ ~updated[2].success
    /\ fetched = seeds
    /\ seeds[1] \notin KeysOf(seed_list)

\* C12: every seed the run has fetched was probed before its fetch and the
\* probe returned an active result; a seed whose probe is not active is
\* not fetched.
C12_ProbeBeforeFetch ==
    \A i \in 1..Len(fetched) : fetched[i] \in probed

\* the addresses save_match was called with in the current run
SavedUrls == {saved[i] : i \in 1..Len(saved)}

\* a keyword of the run's list occurs in the body of the current response
KeywordHit ==
    \E i \in 1..Len(keywords) :
        Contains(Lower(response.content), Lower(keywords[i]))

\* C13: each seed of a run gets exactly one health update, in batch order;
\* it is a recordSuccess when the fetch obtained content (a 200 response
\* that is not a download) and a recordFailure otherwise; appendMatches is
\* called for the seed exactly when content was obtained and a keyword
\* hits, and only for a seed with a recordSuccess in this run.
C13_OneUpdateByOutcome ==
    /\ pc \in {"fetch", "status"} => Len(updated) = idx - 1
    /\ pc \in {"save", "sleep", "done"} => Len(updated) = idx
    /\ pc # "idle" => UpdatedUrls = SubSeq(seeds, 1, Len(updated))
    /\ pc \in {"save", "sleep"} =>
          /\ updated[idx].success <=> Is200Text
          /\ updated[idx].success =>
                /\ seeds[idx] \in KeysOf(seed_list)
                /\ RowOf(seed_list, seeds[idx]).failure_count = 0
    /\ pc = "save" => Is200Text /\ KeywordHit
    /\ pc = "sleep" =>
          (seeds[idx] \in SavedUrls <=> (Is200Text /\ KeywordHit))
    /\ \A u \in SavedUrls :
          \E j \in 1..Len(updated) : updated[j].url = u /\ updated[j].success

\* the addresses of the records with isActive true, in store order
ActiveInOrder(tbl) ==
    LET act == SelectSeq(tbl, LAMBDA r : r.is_active)
    IN  [i \in 1..Len(act) |-> act[i].url]

\* an upper bound of the steps the current run has left
Remaining ==
    IF pc \in {"idle", "killed"} THEN 0
    ELSE 4 * (Len(seeds) - idx)
         + (CASE pc = "fetch" -> 5 [] pc = "status" -> 4 [] pc = "save" -> 3
              [] pc = "sleep" -> 2 [] OTHER -> 1)

\* a step of the current run: each changes the position
RunStep == pc # "idle" /\ pc' # pc

\* what C14 says of one step: of the start of a run (the step that counts
\* it), of the steps of the run and of the fetches (the steps that leave
\* "fetch")
SinglePassStep ==
    /\ runs' # runs =>
          /\ seeds' = ActiveInOrder(seed_list)
          /\ seeds' = <<>> =>
                /\ pc' = "idle" /\ fetched' = <<>>
                /\ UNCHANGED <<seed_list, matches, quarantine>>
    /\ (pc # "idle" /\ pc' # "idle") => seeds' = seeds
    /\ pc # "idle" =>
          /\ pc \in {"fetch", "status", "save", "sleep", "done"}
          /\ idx \in 1..Len(seeds)
          /\ RunStep => Remaining' < Remaining
          /\ ~RunStep => Remaining' = Remaining
    /\ (pc = "fetch" /\ pc' # pc) =>
          fetched' = Append(fetched, seeds[Len(fetched) + 1])
    /\ ~(pc = "fetch" /\ pc' # pc) =>
          (fetched' = fetched \/ fetched' = <<>>)
    /\ (pc # "idle" /\ pc' = "idle") => fetched = seeds

\* C14: the batch of a run is listActive() as it is when the run starts
\* and stays as loaded; the run fetches the seeds of the batch one after
\* the other in that order, each once, and ends after the last, in a number
\* of steps bounded by the batch; a run with an empty batch ends at once
\* without a fetch or a change of the stores.
C14_SinglePass == [][SinglePassStep]_vars

\* C14 happens: a run over a batch of one seed has ended its pass while
\* the store holds a seed that was added during the run.
C14_Witness ==
    /\ pc = "done" /\ Len(seeds) = 1 /\ fetched = seeds
    /\ Len(seed_list) = 2

\* C15: the run has paused 2 s after each seed it has finished, whatever
\* the outcome of the seed: when a fetch is about to be issued the run has
\* slept 2 s for every fetch issued before it, and when the pass is over it
\* has slept 2 s for every seed of the batch.
C15_PauseAfterEverySeed ==
    /\ pc = "fetch" => slept = 2 * Len(fetched) /\ Len(fetched) = idx - 1
    /\ pc \in {"status", "save", "sleep"} =>
          slept = 2 * (Len(fetched) - 1) /\ Len(fetched) = idx
    /\ pc = "done" => slept = 2 * Len(seeds) /\ Len(fetched) = Len(seeds)

\* C15 happens: the first seed of the batch matched a keyword, the second
\* seed failed and was evicted, and the run paused after each of them.
C15_Witness ==
    /\ pc = "done" /\ Len(seeds) = 2 /\ slept = 4
    /\ updated[1].success /\ seeds[1] \in SavedUrls
    /\ ~updated[2].success /\ seeds[2] \notin KeysOf(seed_list)

\* the store after a complete health update of url at time t, as the
\* contract has recordSuccess and recordFailure
AfterHealthUpdate(tbl, url, success, t) ==
    LET upd(r) ==
            IF r.url # url THEN r
            ELSE IF success
                 THEN [r EXCEPT !.failure_count = 0, !.last_checked = t,
                                !.is_active = TRUE]
                 ELSE [r EXCEPT !.failure_count = @ + 1, !.last_checked = t]
    IN  SelectSeq([i \in 1..Len(tbl) |-> upd(tbl[i])],
                  LAMBDA r : r.failure_count < 3)

\* a valid seed store: one record per address, each with a failure count
\* below 3, and a last check time once it has failed
ValidStore(tbl) ==
    /\ \A i, j \in 1..Len(tbl) : tbl[i].url = tbl[j].url => i = j
    /\ \A i \in 1..Len(tbl) :
          /\ tbl[i].failure_count \in {0, 1, 2}
          /\ tbl[i].failure_count > 0 => tbl[i].last_checked # NULL

\* what C16 says of one step: a kill changes nothing in the store, the
\* health update of a seed (the step that leaves "status" in a process
\* that is not killed) is the complete update of that seed alone, no other
\* step of a run changes the store, and the seeds updated so far are the
\* first seeds of the batch
InterruptStep ==
    /\ pc' = "killed" => seed_list' = seed_list
    /\ (pc = "status" /\ pc' \notin {pc, "killed"}) =>
          /\ seed_list' = AfterHealthUpdate(seed_list, seeds[idx],
                                            updated'[idx].success, now)
          /\ \A u \in KeysOf(seed_list) \ {seeds[idx]} :
                /\ u \in KeysOf(seed_list')
                /\ RowOf(seed_list', u) = RowOf(seed_list, u)
    /\ ~(pc = "status" /\ pc' # pc) => seed_list' = seed_list
    /\ ValidStore(seed_list')
    /\ pc' # "idle" =>
          /\ Len(updated') \in {idx' - 1, idx'}
          /\ UpdatedUrls' = SubSeq(seeds', 1, Len(updated'))

\* C16: whenever a run is killed the seed store is as the last committed
\* health update left it: it holds the complete health updates of the first
\* seeds of the batch, one per seed processed, and nothing of the others,
\* every record has a failure count below 3, and no record holds part of an
\* update.
C16_KillLeavesValidStore == [][InterruptStep]_vars

\* C16 happens: a run over two seeds was killed inside the health update of
\* the second seed, after the failure of the first seed had evicted it; the
\* second seed is as it was.
C16_Witness ==
    /\ pc = "killed" /\ Len(seeds) = 2 /\ idx = 2
    /\ Len(fetched) = 2 /\ Len(updated) = 1
    /\ seeds[1] \notin KeysOf(seed_list)
    /\ seeds[2] \in KeysOf(seed_list)
    /\ RowOf(seed_list, seeds[2]).failure_count = 2

\* a validator that is handed one of the input urls
InitSyntax ==
    /\ seed_list = <<>>
    /\ matches = <<>>
    /\ now = 0
    /\ quarantine = <<>>
    /\ pc = "idle"
    /\ seeds = <<>>
    /\ idx = 0
    /\ keywords = <<>>
    /\ response = NoResponse
    /\ html_content = None
    /\ found = <<>>
    /\ runs = 0
    /\ binarySeen = {}
    /\ runBase = 0
    /\ fetched = <<>>
    /\ updated = <<>>
    /\ saved = <<>>
    /\ slept = 0
    /\ fails = [u \in Urls |-> 0]
    /\ scen = [u \in Urls |-> -1]
    /\ evicted = [u \in Urls |-> FALSE]
    /\ everEvicted = [u \in Urls |-> FALSE]
    /\ redisc = [u \in Urls |-> FALSE]
    /\ v_url \in SyntaxInputs
    /\ v_valid = FALSE
    /\ site_data = OnionSite(<<>>)
    /\ v_response = NoProbeResponse
    /\ v_requests = 0
    /\ probed = {}
    /\ v_pc = "input"

NextSyntax == CheckSyntax

\* the address syntax check applied to each input url
SpecSyntax == InitSyntax /\ [][NextSyntax]_vars

\* a validator that is asked to probe one of the input urls
InitProbe ==
    /\ seed_list = <<>>
    /\ matches = <<>>
    /\ now = 0
    /\ quarantine = <<>>
    /\ pc = "idle"
    /\ seeds = <<>>
    /\ idx = 0
    /\ keywords = <<>>
    /\ response = NoResponse
    /\ html_content = None
    /\ found = <<>>
    /\ runs = 0
    /\ binarySeen = {}
    /\ runBase = 0
    /\ fetched = <<>>
    /\ updated = <<>>
    /\ saved = <<>>
    /\ slept = 0
    /\ fails = [u \in Urls |-> 0]
    /\ scen = [u \in Urls |-> -1]
    /\ evicted = [u \in Urls |-> FALSE]
    /\ everEvicted = [u \in Urls |-> FALSE]
    /\ redisc = [u \in Urls |-> FALSE]
    /\ v_url \in ProbeInputs
    /\ v_valid = FALSE
    /\ site_data = OnionSite(<<>>)
    /\ v_response = NoProbeResponse
    /\ v_requests = 0
    /\ probed = {}
    /\ v_pc = "probe"

NextProbe == ValidateUrl

\* the reachability probe applied to each input url
SpecProbe == InitProbe /\ [][NextProbe]_vars

(***************************************************************************)
(* Properties of the address syntax check                                  *)
(***************************************************************************)
\* the host segment as the contract has it: the scheme up to the first "://"
\* is stripped, then everything from the first "/"
HostSegment(url) ==
    BeforeFirstSlash(IF SepPositions(url) = {} THEN url
                     ELSE SubSeq(url, Min(SepPositions(url)) + 3, Len(url)))

\* C10: the check returns true exactly when the host segment of the url is
\* 56 characters of [a-z2-7] followed by ".onion", and false otherwise.
C10_SyntaxIffOnionHost ==
    v_pc = "checked" => (v_valid <=> FullOnionName(HostSegment(v_url)))

(***************************************************************************)
(* Properties of the reachability probe                                    *)
(***************************************************************************)
\* the address passes the Address Syntax Check as the contract has it
PassesSyntaxCheck(url) == FullOnionName(HostSegment(url))

\* the OnionSite of a probe that did nothing
DefaultResult(url) ==
    [url |-> url, is_active |-> FALSE, response_time |-> 0,
     status_code |-> 0, title |-> NA]

\* C17: a probe of an address that fails the Address Syntax Check sends no
\* request and returns isActive false, statusCode 0, responseTime 0 and
\* title "N/A"; a probe sends a request only for an address that passes
\* the check, and at most one.
C17_RequestOnlyIfSyntaxValid ==
    v_pc = "returned" =>
        /\ v_requests <= 1
        /\ ~PassesSyntaxCheck(v_url) =>
              /\ v_requests = 0
              /\ site_data = DefaultResult(v_url)
        /\ v_requests = 1 => PassesSyntaxCheck(v_url)

\* the page contains a seizure phrase in some letter case
HasSeizurePhrase(text) ==
    \E k \in SeizureKeywords :
        \E i \in 1..(Len(text) - Len(k) + 1) :
            Lower(SubSeq(text, i, i + Len(k) - 1)) = k

\* the GET of the probe returned a response
GotResponse == v_response.kind = "http"

\* C18: the result is active exactly when the address passes the syntax
\* check, the GET returned 200 and the body has no seizure phrase in any
\* letter case; a 200 body with a seizure phrase gives inactive and title
\* "[SEIZED]"; another status gives inactive, the status recorded and title
\* "N/A"; an exception of the GET gives inactive with status and time 0.
C18_ActiveIff200Unseized ==
    v_pc = "returned" =>
        /\ site_data.is_active <=>
              /\ PassesSyntaxCheck(v_url)
              /\ GotResponse /\ v_response.status_code = 200
              /\ ~HasSeizurePhrase(v_response.text)
        /\ (GotResponse /\ v_response.status_code = 200
                /\ HasSeizurePhrase(v_response.text)) =>
              ~site_data.is_active /\ site_data.title = Seized
        /\ (GotResponse /\ v_response.status_code # 200) =>
              /\ ~site_data.is_active
              /\ site_data.status_code = v_response.status_code
              /\ site_data.title = NA
        /\ v_response.kind \in {"timeout", "connection", "exception"} =>
              /\ ~site_data.is_active
              /\ site_data.status_code = 0
              /\ site_data.response_time = 0

\* the title as the contract has it: the text between the first "<title>"
\* and the "</title>" that follows it, "No Title" when either is missing
ContractTitle(text) ==
    IF Positions(text, TitleOpen) = {} THEN NoTitle
    ELSE LET from == Min(Positions(text, TitleOpen)) + Len(TitleOpen)
             closes == {j \in Positions(text, TitleClose) : j >= from}
         IN  IF closes = {} THEN NoTitle
             ELSE SubSeq(text, from, Min(closes) - 1)

\* C19: the title of an active result is the text between the first
\* "<title>" and the following "</title>" of the body when both are there,
\* and "No Title" when there is no "<title>" or no "</title>" after it.
C19_TitleBetweenTagsOrNoTitle ==
    (v_pc = "returned" /\ site_data.is_active) =>
        site_data.title = ContractTitle(v_response.text)


=============================================================================
